---- MODULE Spec2Model ----
(***************************************************************************)
(* Model of corpman.py: Template, TestFile, TestCase and CorpusManager.    *)
(*                                                                         *)
(* File names and paths are tuples of one-character strings so that the    *)
(* string operations of the scan (startswith, lower, splitext, lstrip,     *)
(* sort) are computed character by character.  The names built with        *)
(* "%04d" keep the literal prefix and the formatted digits apart.          *)
(***************************************************************************)
EXTENDS Integers, Sequences, FiniteSets, TLC

\* Python's None
None == [py |-> "None"]

\* ------------------------------------------------------------------ bounds
\* generate() is called at most MaxCalls times in one run
MaxCalls == 4
\* add_testfile() is called at most MaxAdds times on the stand-alone TestCase
MaxAdds == 3
\* get_data() and get_hash() are called at most MaxGets times on the
\* stand-alone Template
MaxGets == 4

\* --------------------------------------------------------------- strings
\* ord(c) for the characters that occur in the modelled file names
Ord(c) ==
    CASE c = "." -> 46 [] c = "/" -> 47
      [] c = "H" -> 72 [] c = "T" -> 84
      [] c = "a" -> 97 [] c = "b" -> 98 [] c = "c" -> 99 [] c = "d" -> 100
      [] c = "e" -> 101 [] c = "h" -> 104 [] c = "m" -> 109 [] c = "s" -> 115
      [] c = "t" -> 116 [] c = "u" -> 117

\* str.lower() on one character
LowerChar(c) ==
    IF Ord(c) >= 65 /\ Ord(c) <= 90
    THEN CHOOSE l \in {"h", "t"} : Ord(l) = Ord(c) + 32
    ELSE c

\* str.lower()
Lower(s) == [i \in 1..Len(s) |-> LowerChar(s[i])]

\* str.startswith(c) for a one-character prefix
StartsWith(s, c) == Len(s) >= 1 /\ s[1] = c

\* str.rfind(c) as a 1-based index, 0 when absent
RFind(s, c) ==
    IF \E i \in 1..Len(s) : s[i] = c
    THEN CHOOSE i \in 1..Len(s) : s[i] = c /\ \A j \in (i+1)..Len(s) : s[j] # c
    ELSE 0

\* os.path.splitext(p)[1]: the text from the last dot on, when that dot comes
\* after the last separator and after a character of the base name that is
\* not a dot; the empty string otherwise
SplitExt(p) ==
    LET sep == RFind(p, "/")
        dot == RFind(p, ".")
    IN  IF dot > sep /\ \E k \in (sep+1)..(dot-1) : p[k] # "."
        THEN SubSeq(p, dot, Len(p))
        ELSE <<>>

\* str.lstrip(".")
RECURSIVE LStripDot(_)
LStripDot(s) ==
    IF s # <<>> /\ Head(s) = "." THEN LStripDot(Tail(s)) ELSE s

\* a < b for Python strings: code points compared left to right
RECURSIVE StrLess(_, _)
StrLess(a, b) ==
    IF b = <<>> THEN FALSE
    ELSE IF a = <<>> THEN TRUE
    ELSE IF Ord(Head(a)) # Ord(Head(b)) THEN Ord(Head(a)) < Ord(Head(b))
    ELSE StrLess(Tail(a), Tail(b))

\* the digits of n, most significant first
RECURSIVE Digits(_)
Digits(n) == IF n < 10 THEN <<n>> ELSE Append(Digits(n \div 10), n % 10)

\* "%04d" % n : the digits of n, padded with zeros on the left to 4 places
RECURSIVE ZeroPad(_, _)
ZeroPad(d, width) == IF Len(d) >= width THEN d ELSE ZeroPad(<<0>> \o d, width)

Fmt04d(n) == ZeroPad(Digits(n), 4)

\* "test_page_%d.html" % n, without the padding
TestPageNameUnpadded(n) ==
    [prefix |-> "test_page_", digits |-> Digits(n), suffix |-> ".html"]

\* "test_page_%04d.html" % n
TestPageName(n) == [prefix |-> "test_page_", digits |-> Fmt04d(n), suffix |-> ".html"]

\* "transition_%04d.html" % n
TransitionName(n) == [prefix |-> "transition_", digits |-> Fmt04d(n), suffix |-> ".html"]

\* "<script>window.location='test_page_%04d.html';</script>" % n
RedirectScript(n) ==
    [prefix |-> "<script>window.location='", target |-> TestPageName(n),
     suffix |-> "';</script>"]

\* ------------------------------------------------------------ file system
\* The corpus directory /c and the files that may exist under it.
RootDir == <<"/", "c">>
SubDir == <<"/", "c", "/", "s">>

FileIds == {"f1", "f2", "f3", "f4", "f5", "f6"}

DirOf(f) == IF f = "f2" THEN SubDir ELSE RootDir

NameOf(f) ==
    CASE f = "f1" -> <<"a", ".", "h">>
      [] f = "f2" -> <<"b", ".", "H">>
      [] f = "f3" -> <<"c", ".", "t">>
      [] f = "f4" -> <<".", "d", ".", "h">>
      [] f = "f5" -> <<"T", "h", "u", "m", "b", "s", ".", "d", "b">>
      [] f = "f6" -> <<"e", ".", "h">>

\* os.path.getsize
GetSize(f) == IF f = "f6" THEN 0 ELSE 10

\* os.path.abspath(os.path.join(d_name, f_name))
JoinPath(d, n) == d \o <<"/">> \o n

PathOf(f) == JoinPath(DirOf(f), NameOf(f))

\* os.walk order: the files of a directory before those of its sub-directories,
\* in the order the file system lists them (which is not sorted)
Listing == <<"f3", "f5", "f1", "f6", "f4", "f2">>

\* The hidden, the ignored and the empty file stay in the directory; the other
\* files come and go between two scans.  What a scan finds on disk is an
\* input of that scan.
JunkFiles == {"f4", "f5", "f6"}
DiskChoices == {JunkFiles \cup x : x \in SUBSET (FileIds \ JunkFiles)}

\* ------------------------------------------------------------------ state
VARIABLES
    corpus_path,      \* CorpusManager._corpus_path
    accepted,         \* the accepted_extensions argument of __init__
    is_replay,        \* CorpusManager._is_replay
    rotate_period,    \* CorpusManager._rotate_period
    use_transition,   \* CorpusManager._use_transition
    generated,        \* CorpusManager._generated
    templates,        \* CorpusManager._templates
    active_template,  \* CorpusManager._active_template
    scanned,          \* the paths the scan of __init__ found
    calls,            \* number of generate() calls made
    result,           \* how the last generate() call ended
    cleared,          \* the last generate() call executed line 206
    hook_raised,      \* some call of _generate has raised
    hook_call,        \* the last call of _generate: its test and redirect_page, and whether it returned
    test,             \* the TestCase the last successful generate() returned
    selected,         \* the last generate() call made a new Template (line 210 or 212)
    exhausted,        \* number of generate() calls that failed in pop() (line 210)
    landings,         \* per returned TestCase: landing_page() before the call, and
                      \* the landing page of the TestCase
    tc,               \* a TestCase used on its own
    tc_log,           \* the arguments of the add_testfile calls made on tc
    tc_result,        \* how the last add_testfile call on tc ended
    tpl,              \* a Template used on its own (None: its __init__ raised)
    tpl_arg,          \* the file_name argument tpl was constructed with
    tpl_file,         \* what is now on disk at the path of file f1
    tpl_reads,        \* how often tpl has read its file (line 32)
    tpl_gets,         \* number of get_data() and get_hash() calls made on tpl
    tpl_ret,          \* how the last call on tpl ended
    tpl_first         \* what the first successful load of tpl read

mgr_vars == <<corpus_path, accepted, is_replay, rotate_period, use_transition,
              generated, templates, active_template, scanned, calls, result,
              cleared, hook_raised, hook_call, test, selected, exhausted, landings>>
tc_vars == <<tc, tc_log, tc_result>>
tpl_vars == <<tpl, tpl_arg, tpl_file, tpl_reads, tpl_gets, tpl_ret, tpl_first>>
vars == <<mgr_vars, tc_vars, tpl_vars>>

\* the elements of a sequence
Range(s) == {s[i] : i \in 1..Len(s)}

\* ---------------------------------------------------------------- Template
\* Template.__init__ (file_name is not None): nothing is read from disk
Template(file_name) ==
    [file_name |-> file_name,
     extension |-> IF "." \in Range(file_name)
                   THEN [str |-> LStripDot(SplitExt(file_name))]
                   ELSE None,
     data |-> None,
     data_hash |-> None]

\* Template(file_name) for any argument: a str is [str |-> characters].
\* Line 20 rejects None alone.
NewTemplate(arg) ==
    IF arg = None
    THEN [raised |-> "IOError", obj |-> None]
    ELSE [raised |-> "none", obj |-> Template(arg.str)]

\* hashlib.sha1(data).hexdigest(): a digest that the data determines
Sha1(data) == [sha1 |-> data.bytes]

\* Template._load_and_hash_data; `file` is what is on disk at file_name, None
\* when os.path.isfile is false
LoadAndHashData(t, file) ==
    IF file = None
    THEN [raised |-> "IOError", obj |-> t, read |-> FALSE]
    ELSE [raised |-> "none",
          obj |-> [t EXCEPT !.data = file, !.data_hash = Sha1(file)],
          read |-> TRUE]

\* get_data testing the data for truth instead of "is None": an empty file is
\* loaded again
GetDataReloadsEmpty(t, file) ==
    LET reload == IF t.data = None THEN TRUE ELSE t.data.bytes = ""
        l == IF reload THEN LoadAndHashData(t, file)
                       ELSE [raised |-> "none", obj |-> t, read |-> FALSE]
    IN  [raised |-> l.raised, obj |-> l.obj, read |-> l.read,
         value |-> IF l.raised = "none" THEN l.obj.data ELSE None]

\* Template.get_data
GetData(t, file) ==
    LET l == IF t.data = None THEN LoadAndHashData(t, file)
                              ELSE [raised |-> "none", obj |-> t, read |-> FALSE]
    IN  [raised |-> l.raised, obj |-> l.obj, read |-> l.read,
         value |-> IF l.raised = "none" THEN l.obj.data ELSE None]

\* Template.get_hash
GetHash(t, file) ==
    LET l == IF t.data_hash = None THEN LoadAndHashData(t, file)
                                   ELSE [raised |-> "none", obj |-> t, read |-> FALSE]
    IN  [raised |-> l.raised, obj |-> l.obj, read |-> l.read,
         value |-> IF l.raised = "none" THEN l.obj.data_hash ELSE None]

\* ---------------------------------------------------------------- TestFile
\* TestFile.__init__
TestFile(file_name, data, required) ==
    [cls |-> "TestFile", file_name |-> file_name, data |-> data, required |-> required]

\* isinstance(obj, TestFile)
IsTestFile(obj) == obj.cls = "TestFile"

\* ---------------------------------------------------------------- TestCase
\* TestCase.__init__
TestCase(landing_page, corpman_name, template) ==
    [corpman_name |-> corpman_name, landing_page |-> landing_page,
     template |-> template, test_files |-> <<>>, optional_files |-> <<>>]

\* add_testfile with the test of line 83 left out: every name is recorded
AddTestfileRecordsAll(t, test_file) ==
    IF ~IsTestFile(test_file)
    THEN [raised |-> "TypeError", tc |-> t]
    ELSE [raised |-> None.py,
          tc |-> [t EXCEPT !.test_files = Append(@, test_file),
                           !.optional_files = Append(@, test_file.file_name)]]

\* TestCase.add_testfile: the TestCase after the call, and whether it raised
AddTestfile(t, test_file) ==
    IF ~IsTestFile(test_file)
    THEN [raised |-> "TypeError", tc |-> t]
    ELSE [raised |-> None.py,
          tc |-> [t EXCEPT !.test_files = Append(@, test_file),
                           !.optional_files =
                               IF ~test_file.required
                               THEN Append(@, test_file.file_name)
                               ELSE @]]

\* TestCase.get_optional
GetOptional(t) ==
    IF t.optional_files # <<>> THEN [list |-> t.optional_files] ELSE None

\* ----------------------------------------------------------- CorpusManager
\* ignored_list of _scan_for_templates
IgnoredList == { <<"d", "e", "s", "k", "t", "o", "p", ".", "i", "n", "i">>,
                 <<"t", "h", "u", "m", "b", "s", ".", "d", "b">> }

\* lines 165-170: the file name passes the name and extension checks
WantedName(f_name, accepted_extensions) ==
    /\ ~(StartsWith(f_name, ".") \/ Lower(f_name) \in IgnoredList)
    /\ (accepted_extensions # None /\ accepted_extensions.elems # {})
          => Lower(LStripDot(SplitExt(f_name))) \in accepted_extensions.elems

\* lines 162-174: one file of the walk is appended to the pool
Keeps(f, accepted_extensions) ==
    /\ WantedName(NameOf(f), accepted_extensions)
    /\ GetSize(f) > 0

\* list.sort(reverse=True): insertion into a descending list
RECURSIVE InsertDesc(_, _)
InsertDesc(s, p) ==
    IF s = <<>> THEN <<p>>
    ELSE IF StrLess(Head(s), p) THEN <<p>> \o s
    ELSE <<Head(s)>> \o InsertDesc(Tail(s), p)

RECURSIVE SortReverse(_)
SortReverse(s) ==
    IF s = <<>> THEN <<>> ELSE InsertDesc(SortReverse(Tail(s)), Head(s))

\* the pool left in the order of the walk
OrderPoolUnsorted(found, replay) == found

\* lines 182-185: the order of the pool
OrderPool(found, replay) == IF replay THEN SortReverse(found) ELSE found

\* the files of `order` that are on disk `d` and kept by the filter, as paths
RECURSIVE Walk(_, _, _)
Walk(order, d, accepted_extensions) ==
    IF order = <<>> THEN <<>>
    ELSE LET f == Head(order)
             rest == Walk(Tail(order), d, accepted_extensions)
         IN  IF f \in d /\ Keeps(f, accepted_extensions)
             THEN <<PathOf(f)>> \o rest
             ELSE rest

\* os.path.isdir / os.path.isfile of a path on disk d
IsDir(path, d) == path = RootDir
IsFile(path, d) == \E f \in d : PathOf(f) = path
FileAt(path, d) == CHOOSE f \in d : PathOf(f) = path

\* CorpusManager._scan_for_templates: the new pool; the empty pool stands for
\* the IOError of line 180 (self._templates is then the empty list)
ScanForTemplates(path, d, order, accepted_extensions, replay) ==
    LET found ==
            IF IsDir(path, d) THEN Walk(order, d, accepted_extensions)
            ELSE IF IsFile(path, d) /\ GetSize(FileAt(path, d)) > 0 THEN <<path>>
            ELSE <<>>
    IN  OrderPool(found, replay)

\* CorpusManager.key (line 134)
Key == None

\* line 201: this call is at a rotation boundary
AtRotation(gen, period) == period > 0 /\ gen % period = 0

\* line 205 with >= 1, and with > 2, in place of > 1
SwitchTemplatesWithOne(pool) == Len(pool) >= 1
SwitchTemplatesOverTwo(pool) == Len(pool) > 2

\* line 205: the rescanned pool lets the active template be dropped
SwitchTemplates(pool) == Len(pool) > 1

\* line 210 reading the last element without removing it
PopKeepsItem(pool) == [item |-> pool[Len(pool)], rest |-> pool]

\* line 210, self._templates.pop(): the last element, and the list without it
Pop(pool) == [item |-> pool[Len(pool)], rest |-> SubSeq(pool, 1, Len(pool) - 1)]

\* line 212, random.choice(self._templates): what may be chosen
Choice(pool) == Range(pool)

\* lines 215-226 with the template argument of TestCase() left out
NewTestWithoutTemplate(gen, template, transition) ==
    LET shell == TestCase(TestPageName(gen), Key, None)
    IN  IF transition
        THEN [test |-> AddTestfile(shell,
                           TestFile(TransitionName(gen), RedirectScript(gen + 1), TRUE)).tc,
              redirect_page |-> TransitionName(gen)]
        ELSE [test |-> shell, redirect_page |-> TestPageName(gen + 1)]

\* lines 215-226 with the own counter where the next one belongs
NewTestOwnCounter(gen, template, transition) ==
    LET shell == TestCase(TestPageName(gen), Key, template)
    IN  IF transition
        THEN [test |-> AddTestfile(shell,
                           TestFile(TransitionName(gen), RedirectScript(gen), TRUE)).tc,
              redirect_page |-> TransitionName(gen)]
        ELSE [test |-> shell, redirect_page |-> TestPageName(gen)]

\* lines 215-226: the TestCase handed to _generate and the redirect page name
NewTest(gen, template, transition) ==
    LET shell == TestCase(TestPageName(gen), Key, template)
    IN  IF transition
        THEN [test |-> AddTestfile(shell,
                           TestFile(TransitionName(gen), RedirectScript(gen + 1), TRUE)).tc,
              redirect_page |-> TransitionName(gen)]
        ELSE [test |-> shell, redirect_page |-> TestPageName(gen + 1)]

\* CorpusManager.landing_page
LandingPage(gen) == TestPageName(gen)

\* CorpusManager.get_active_file_name: a str is [str |-> characters]
GetActiveFileName(active) ==
    IF active = None THEN None ELSE [str |-> active.file_name]

\* CorpusManager.size
Size(pool) == Len(pool)

\* line 142 keeping the rotate argument in replay mode too
RotatePeriodAsPassed(replay, rotate) == rotate

\* line 142: self._rotate_period
RotatePeriod(replay, rotate) == IF replay THEN 0 ELSE rotate

\* line 229 left out
IncrementForgotten(gen) == gen

\* line 229
Increment(gen) == gen + 1

\* _generate is supplied by the subclass: it adds TestFiles to the TestCase
\* (the landing page, and possibly an optional file) and returns, or raises
ExtraName == [prefix |-> "extra.bin", digits |-> <<>>, suffix |-> ""]
HookAdds(t) ==
    { <<TestFile(t.landing_page, [bytes |-> "fuzzed"], TRUE)>>,
      <<TestFile(t.landing_page, [bytes |-> "fuzzed"], TRUE),
        TestFile(ExtraName, [bytes |-> "blob"], FALSE)>> }

RECURSIVE AddAll(_, _)
AddAll(t, files) ==
    IF files = <<>> THEN t ELSE AddAll(AddTestfile(t, Head(files)).tc, Tail(files))

\* the mime_type argument of generate()
MimeTypes == {None}

\* the rotate argument of __init__
RotateChoices == {0, 1, 2}

\* the accepted_extensions argument of __init__
AcceptedChoices == {None, [elems |-> {<<"h">>}]}

\* the path argument of __init__: the corpus directory, or one file
PathChoices == {RootDir, PathOf("f3")}

\* _scan_for_templates on every input of the model, computed once
ScanTable ==
    [path \in PathChoices, disk \in DiskChoices, exts \in AcceptedChoices,
     replay \in BOOLEAN |-> ScanForTemplates(path, disk, Listing, exts, replay)]

\* the pools a scan may build, over what may be on disk when it runs
ScanResults(path, exts, replay) ==
    {ScanTable[path, disk, exts, replay] : disk \in DiskChoices}

\* CorpusManager.__init__ returned: the scan of line 147 found a template.
\* _use_transition is True after __init__; a subclass may turn it off.
Init ==
    /\ corpus_path \in PathChoices
    /\ accepted \in AcceptedChoices
    /\ is_replay \in BOOLEAN
    /\ \E rotate \in RotateChoices : rotate_period = RotatePeriod(is_replay, rotate)
    /\ use_transition \in BOOLEAN
    /\ generated = 0
    /\ templates \in ScanResults(corpus_path, accepted, is_replay)
    /\ templates # <<>>
    /\ active_template = None
    /\ scanned = Range(templates)
    /\ calls = 0
    /\ result = "none"
    /\ cleared = FALSE
    /\ hook_raised = FALSE
    /\ hook_call = None
    /\ test = None
    /\ selected = FALSE
    /\ exhausted = 0
    /\ landings = <<>>
    /\ tc = TestCase(TestPageName(0), Key, None)
    /\ tc_log = <<>>
    /\ tc_result = "none"
    /\ tpl = None
    /\ tpl_arg = None
    /\ tpl_file = None
    /\ tpl_reads = 0
    /\ tpl_gets = 0
    /\ tpl_ret = [op |-> "__init__", raised |-> "IOError", value |-> None]
    /\ tpl_first = None

\* how a generate() call that raised leaves the manager
Raise(err, pool, active, clr) ==
    /\ result' = err
    /\ templates' = pool
    /\ active_template' = active
    /\ cleared' = clr
    /\ UNCHANGED <<generated, test, landings>>

\* CorpusManager.generate(mime_type).  mime_type is only handed on to
\* _generate (line 228); the manager keeps nothing of it.
Generate(mime_type) ==
    /\ calls < MaxCalls
    /\ calls' = calls + 1
    /\ UNCHANGED <<tc_vars, tpl_vars, corpus_path, accepted, is_replay, rotate_period,
                   use_transition, scanned>>
    /\ \E pool \in (IF AtRotation(generated, rotate_period)
                     THEN ScanResults(corpus_path, None, is_replay)
                     ELSE {templates}) :
       LET rescan == AtRotation(generated, rotate_period)
           clr == rescan /\ SwitchTemplates(pool)
           kept == IF clr THEN None ELSE active_template
       IN  IF rescan /\ pool = <<>>
           THEN \* line 180
                /\ Raise("IOError", pool, active_template, FALSE)
                /\ selected' = FALSE
                /\ UNCHANGED <<hook_raised, hook_call, exhausted>>
           ELSE IF is_replay /\ pool = <<>>
           THEN \* line 210: pop from an empty list
                /\ Raise("IndexError", pool, kept, clr)
                /\ selected' = FALSE
                /\ exhausted' = exhausted + 1
                /\ UNCHANGED <<hook_raised, hook_call>>
           ELSE \E chosen \in (IF is_replay THEN {Pop(pool).item}
                               ELSE IF kept = None THEN Choice(pool)
                               ELSE {kept.file_name}) :
                LET active == IF ~is_replay /\ kept # None THEN kept ELSE Template(chosen)
                    rest == IF is_replay THEN Pop(pool).rest ELSE pool
                    new == NewTest(generated, active, use_transition)
                IN  /\ selected' = (is_replay \/ kept = None)
                    /\ UNCHANGED exhausted
                    /\ \/ \* _generate raises
                          /\ hook_call' = [test |-> new.test,
                                           redirect_page |-> new.redirect_page,
                                           returned |-> FALSE]
                          /\ Raise("HookError", rest, active, clr)
                          /\ hook_raised' = TRUE
                       \/ \* _generate returns
                          \E files \in HookAdds(new.test) :
                             /\ hook_call' = [test |-> new.test,
                                              redirect_page |-> new.redirect_page,
                                              returned |-> TRUE]
                             /\ test' = AddAll(new.test, files)
                             /\ landings' = Append(landings,
                                    [before |-> LandingPage(generated),
                                     returned |-> new.test.landing_page])
                             /\ generated' = Increment(generated)
                             /\ result' = "ok"
                             /\ templates' = rest
                             /\ active_template' = active
                             /\ cleared' = clr
                             /\ UNCHANGED hook_raised

Next ==
    \E m \in MimeTypes : Generate(m)

Spec == Init /\ [][Next]_vars

\* ------------------------------------------------- a TestCase on its own
\* what a caller may pass to add_testfile: TestFiles, and an object that has
\* the attributes of a TestFile without being one
TcObjects ==
    {TestFile(n, [bytes |-> "x"], r) : n \in {"a.bin", "b.bin"}, r \in BOOLEAN}
        \cup {[cls |-> "dict", file_name |-> "a.bin", data |-> [bytes |-> "x"],
               required |-> FALSE]}

\* tc.add_testfile(obj)
TcAdd(obj) ==
    /\ Len(tc_log) < MaxAdds
    /\ tc_log' = Append(tc_log, obj)
    /\ tc' = AddTestfile(tc, obj).tc
    /\ tc_result' = AddTestfile(tc, obj).raised
    /\ UNCHANGED <<mgr_vars, tpl_vars>>

InitTC ==
    /\ Init
    /\ corpus_path = RootDir
    /\ accepted = None
    /\ ~is_replay
    /\ rotate_period = 0
    /\ use_transition
    /\ templates = <<PathOf("f1")>>

NextTC == \E obj \in TcObjects : TcAdd(obj)

SpecTC == InitTC /\ [][NextTC]_vars

\* ------------------------------------------------- a Template on its own
\* the file_name argument of Template(): None, the empty str, the path of f1
TemplateArgs == {None, [str |-> <<>>], [str |-> PathOf("f1")]}

\* what may be on disk at the path of f1: nothing, or a file with content
FileContents == {None, [bytes |-> ""], [bytes |-> "x"], [bytes |-> "y"]}

\* what tpl finds on disk at its file_name
FileOf(t) == IF t.file_name = PathOf("f1") THEN tpl_file ELSE None

\* one call on tpl that ended as `r`
TplCall(op, r) ==
    /\ tpl_gets < MaxGets
    /\ tpl_gets' = tpl_gets + 1
    /\ tpl' = r.obj
    /\ tpl_reads' = IF r.read THEN tpl_reads + 1 ELSE tpl_reads
    /\ tpl_first' = IF r.read /\ tpl_first = None
                    THEN [data |-> r.obj.data, data_hash |-> r.obj.data_hash]
                    ELSE tpl_first
    /\ tpl_ret' = [op |-> op, raised |-> r.raised, value |-> r.value]
    /\ UNCHANGED <<mgr_vars, tc_vars, tpl_arg, tpl_file>>

\* tpl.get_data()
TplGetData == tpl # None /\ TplCall("get_data", GetData(tpl, FileOf(tpl)))

\* tpl.get_hash()
TplGetHash == tpl # None /\ TplCall("get_hash", GetHash(tpl, FileOf(tpl)))

\* the file is written, replaced or removed by someone else
TplFileChange(c) ==
    /\ c # tpl_file
    /\ tpl_file' = c
    /\ UNCHANGED <<mgr_vars, tc_vars, tpl, tpl_arg, tpl_reads, tpl_gets, tpl_ret,
                   tpl_first>>

\* Template(arg) was called; it returned tpl or raised
InitTemplate ==
    /\ corpus_path = RootDir
    /\ accepted = None
    /\ is_replay = FALSE
    /\ rotate_period = 0
    /\ use_transition = TRUE
    /\ generated = 0
    /\ templates = <<PathOf("f1")>>
    /\ active_template = None
    /\ scanned = {PathOf("f1")}
    /\ calls = 0
    /\ result = "none"
    /\ cleared = FALSE
    /\ hook_raised = FALSE
    /\ hook_call = None
    /\ test = None
    /\ selected = FALSE
    /\ exhausted = 0
    /\ landings = <<>>
    /\ tc = TestCase(TestPageName(0), Key, None)
    /\ tc_log = <<>>
    /\ tc_result = "none"
    /\ tpl_arg \in TemplateArgs
    /\ tpl = NewTemplate(tpl_arg).obj
    /\ tpl_ret = [op |-> "__init__", raised |-> NewTemplate(tpl_arg).raised,
                  value |-> None]
    /\ tpl_file \in FileContents
    /\ tpl_reads = 0
    /\ tpl_gets = 0
    /\ tpl_first = None

NextTemplate ==
    \/ TplGetData
    \/ TplGetHash
    \/ \E c \in FileContents : TplFileChange(c)

SpecTemplate == InitTemplate /\ [][NextTemplate]_vars

\* ================================================================ claims
\* number of templates the scan of __init__ found
N == Cardinality(scanned)

\* the paths of S in ascending order
RECURSIVE Ascending(_)
Ascending(S) ==
    IF S = {} THEN <<>>
    ELSE LET m == CHOOSE x \in S : \A y \in S \ {x} : StrLess(x, y)
         IN  <<m>> \o Ascending(S \ {m})

\* a step of generate()
GenerateStep == calls' = calls + 1

\* the lowercased extension of a path
LowerExt(p) == Lower(LStripDot(SplitExt(p)))

\* C1: in replay mode over N scanned templates, while the generation hook has
\* always returned, calls 1..N succeed and every later call fails with the
\* error of popping from the exhausted pool.
C1_ReplaySucceedsExactlyN ==
    (is_replay /\ ~hook_raised /\ calls >= 1) =>
        IF calls <= N
        THEN result = "ok" /\ generated = calls
        ELSE result = "IndexError" /\ generated = N

C1_Witness ==
    is_replay /\ ~hook_raised /\ N = 2 /\ calls = 4 /\ result = "IndexError"

\* C2: in replay mode the pool is in descending order, and the template made
\* active by the k-th generate() call is the k-th scanned path in ascending
\* order.
C2_ReplayAscendingOrder ==
    is_replay =>
        /\ \A i \in 1..(Len(templates) - 1) : StrLess(templates[i + 1], templates[i])
        /\ (calls >= 1 /\ calls <= N) =>
               active_template.file_name = Ascending(scanned)[calls]

C2_Witness ==
    /\ is_replay /\ N = 3 /\ calls = 3
    /\ active_template.file_name = PathOf("f2")
    /\ Ascending(scanned) = <<PathOf("f1"), PathOf("f3"), PathOf("f2")>>

\* C3: in fresh-fuzzing mode with rotation period P > 0, a generate() call
\* clears the active template exactly when the counter at entry is a multiple
\* of P and the rescanned pool holds more than one candidate.
C3_ClearedIffBoundaryAndSeveral ==
    [][(GenerateStep /\ ~is_replay /\ rotate_period > 0) =>
          (cleared' <=> (generated % rotate_period = 0 /\ Len(templates') > 1))]_vars

C3_Witness ==
    /\ ~is_replay /\ rotate_period = 2 /\ generated = 3 /\ result = "ok"
    /\ cleared /\ Len(templates) > 1

\* C4: the generation counter never decreases; a generate() call that returns
\* a TestCase adds one to it, a generate() call that raises leaves it as it was.
C4_CounterCountsReturns ==
    [][/\ generated' >= generated
       /\ GenerateStep =>
             IF result' = "ok"
             THEN generated' = generated + 1 /\ test' # None
             ELSE generated' = generated /\ test' = test]_vars

C4_Witness ==
    /\ calls = 4 /\ generated = 2 /\ hook_raised
    /\ result = "IOError"

\* the redirect file of a TestCase built with the transition page: the first
\* file added to it
RedirectFile(t) == t.test_files[1]

\* C5: with the transition page, the TestCase returned by the successful call
\* with counter k holds a required redirect file, named otherwise than the
\* landing page, and the target in the redirect file of the TestCase returned
\* before is the landing page of this one.
C5_RedirectLeadsToNextLanding ==
    [][(GenerateStep /\ use_transition /\ result' = "ok") =>
          /\ test'.landing_page = TestPageName(generated)
          /\ Len(test'.test_files) >= 1
          /\ RedirectFile(test').required
          /\ RedirectFile(test').file_name # test'.landing_page
          /\ RedirectFile(test').file_name \notin Range(test'.optional_files)
          /\ RedirectFile(test').data.target = TestPageName(generated + 1)
          /\ test # None => RedirectFile(test).data.target = test'.landing_page]_vars

C5_Witness ==
    /\ use_transition /\ result = "ok" /\ generated = 3 /\ hook_raised
    /\ RedirectFile(test).data.target = TestPageName(3)

\* C6 as claimed: the pool never holds zero templates.
C6_PoolNeverEmpty == Len(templates) >= 1

\* C6 amended: the pool is empty exactly when, in replay mode, N calls of
\* generate() have been made, or when, in fresh-fuzzing mode, the last
\* generate() call failed in its rescan.
C6_PoolEmptyExactlyWhen ==
    (Len(templates) = 0) <=>
        IF is_replay THEN calls >= N ELSE result = "IOError"

C6_Witness ==
    ~is_replay /\ rotate_period = 2 /\ generated = 2 /\ result = "IOError"
        /\ templates = <<>> /\ active_template # None

\* C7 as claimed, for a corpus directory: with accepted extensions given,
\* every path of the pool and the active template have an accepted extension,
\* after construction and after every generate() call.
C7_PoolHasAcceptedExtensions ==
    (accepted # None /\ corpus_path = RootDir) =>
        /\ \A p \in Range(templates) : LowerExt(p) \in accepted.elems
        /\ active_template # None =>
               LowerExt(active_template.file_name) \in accepted.elems

\* the two successful calls of C8
C8_TwoCalls ==
    /\ GenerateStep /\ ~is_replay /\ rotate_period = 1
    /\ result = "ok" /\ result' = "ok"
    /\ Len(templates) = 2 /\ templates' = templates

\* C8 as claimed: with rotation period 1 and two templates, the active
\* template after the second of two successful calls differs from the one
\* after the first.
C8_SecondCallSwitches ==
    [][C8_TwoCalls => active_template'.file_name # active_template.file_name]_vars

\* C8 amended: the second call clears the active template and chooses again
\* among the two templates.
C8_SecondCallChoosesAgain ==
    [][C8_TwoCalls =>
          /\ cleared'
          /\ active_template'.file_name \in Range(templates')
          /\ active_template'.data = None]_vars

C8_Witness ==
    /\ ~is_replay /\ rotate_period = 1 /\ calls = 2 /\ generated = 2
    /\ result = "ok" /\ cleared /\ Len(templates) = 2

\* C9 as claimed: without the transition page, the redirect page passed to
\* the hook is the landing page of the TestCase that the next successful
\* generate() call returns.
C9_RedirectIsNextReturnedLanding ==
    [][(GenerateStep /\ ~use_transition /\ hook_call # None /\ result' = "ok") =>
          test'.landing_page = hook_call.redirect_page]_vars

\* C9 amended: without the transition page the hook receives a TestCase with
\* no file and, on the call with counter k, the landing page name of counter
\* k+1; when the hook returned, that is the landing page of the TestCase the
\* next successful call returns.
C9_RedirectIsNextCounterLanding ==
    [][(GenerateStep /\ ~use_transition) =>
          /\ result' \in {"ok", "HookError"} =>
                /\ hook_call'.test.test_files = <<>>
                /\ hook_call'.test.landing_page = TestPageName(generated)
                /\ hook_call'.redirect_page = TestPageName(generated + 1)
          /\ (hook_call # None /\ hook_call.returned /\ result' = "ok") =>
                test'.landing_page = hook_call.redirect_page]_vars

C9_Witness ==
    /\ ~use_transition /\ generated = 2 /\ result = "ok" /\ calls = 4
    /\ hook_call.test.test_files = <<>>
    /\ hook_call.redirect_page = TestPageName(2)

\* the file names of a sequence of TestFiles
Names(files) == [i \in 1..Len(files) |-> files[i].file_name]

IsOptionalTestFile(obj) == IsTestFile(obj) /\ ~obj.required

\* C10: after any add_testfile calls, the files of the TestCase are the
\* TestFiles passed, in order, its optional files are the names of those
\* passed with required false, in order, and a call with another object raised
\* TypeError.
C10_FilesAndOptionalInOrder ==
    /\ tc.test_files = SelectSeq(tc_log, IsTestFile)
    /\ tc.optional_files = Names(SelectSeq(tc_log, IsOptionalTestFile))
    /\ GetOptional(tc) = IF \E i \in 1..Len(tc_log) : IsOptionalTestFile(tc_log[i])
                         THEN [list |-> Names(SelectSeq(tc_log, IsOptionalTestFile))]
                         ELSE None
    /\ tc_log # <<>> =>
          (tc_result = "TypeError" <=> ~IsTestFile(tc_log[Len(tc_log)]))

C10_Witness ==
    /\ Len(tc_log) = 3
    /\ IsOptionalTestFile(tc_log[1])
    /\ ~IsTestFile(tc_log[2])
    /\ IsTestFile(tc_log[3]) /\ tc_log[3].required
    /\ tc_result # "TypeError"
    /\ Len(tc.test_files) = 2 /\ Len(tc.optional_files) = 1

\* C11: a Template reads its file at most once, and once a load has succeeded
\* every get_data() returns the content and every get_hash() the hash of that
\* load, whatever happens to the file afterwards.
C11_ReadOnceAndStable ==
    /\ tpl_reads <= 1
    /\ tpl_first # None =>
          /\ tpl_reads = 1
          /\ tpl.data = tpl_first.data
          /\ tpl.data_hash = tpl_first.data_hash
          /\ tpl_ret.raised = "none"
          /\ tpl_ret.value = IF tpl_ret.op = "get_data" THEN tpl_first.data
                                                        ELSE tpl_first.data_hash

C11_Witness ==
    /\ tpl_first # None /\ tpl_first.data = [bytes |-> ""]
    /\ tpl_gets = 4 /\ tpl_file = None
    /\ tpl_ret.op = "get_data" /\ tpl_ret.value = [bytes |-> ""]

\* C12 as claimed: Template() called with None or with the empty path raises
\* at once, before any read.
C12_NullOrEmptyPathFails ==
    tpl_arg \in {None, [str |-> <<>>]} => (tpl = None /\ tpl_reads = 0)

\* the call starts at a rotation boundary
BoundaryAtEntry == rotate_period > 0 /\ generated % rotate_period = 0

\* C13: in fresh-fuzzing mode a generate() call makes a new active template
\* only when none was active at entry or when it is at a rotation boundary
\* whose rescan finds more than one candidate; every other call leaves the
\* active template as it was.
C13_ReplacedOnlyWhen ==
    [][(GenerateStep /\ ~is_replay) =>
          LET may == \/ active_template = None
                     \/ BoundaryAtEntry /\ Len(templates') > 1
          IN  /\ selected' => may
              /\ (may /\ result' \in {"ok", "HookError"}) => selected'
              /\ ~selected' => active_template' = active_template]_vars

C13_Witness ==
    /\ ~is_replay /\ rotate_period = 0 /\ calls = 4 /\ generated = 3
    /\ ~selected /\ active_template # None /\ Len(templates) > 1

\* C14: in fresh-fuzzing mode a rotation-boundary rescan that finds a single
\* template leaves the template that was active in place, also when it is
\* another one than the template found.
C14_SingleRescanKeepsActive ==
    [][(GenerateStep /\ ~is_replay /\ BoundaryAtEntry /\ Len(templates') = 1
            /\ active_template # None) =>
          (active_template' = active_template /\ ~selected' /\ ~cleared')]_vars

C14_Witness ==
    /\ ~is_replay /\ result = "ok" /\ Len(templates) = 1
    /\ active_template # None
    /\ active_template.file_name \notin Range(templates)

\* "test_page_" followed by the four decimal places of k and ".html"
FourPlaces(k) ==
    [prefix |-> "test_page_",
     digits |-> <<(k \div 1000) % 10, (k \div 100) % 10, (k \div 10) % 10, k % 10>>,
     suffix |-> ".html"]

\* counters around the places where the number of digits changes
CounterSamples == {0, 9, 10, 99, 100, 999, 1000, 9999, 10000}

\* C15: the landing page of the TestCase returned by the k-th successful
\* generate() call (from 0) is test_page_ with k on four places, it is what
\* landing_page() returned before the call, and no two returned TestCases
\* have the same landing page.
C15_LandingPages ==
    /\ Len(landings) = generated
    /\ \A i \in 1..Len(landings) :
          /\ landings[i].returned = FourPlaces(i - 1)
          /\ landings[i].before = landings[i].returned
    /\ \A i, j \in 1..Len(landings) :
          i # j => landings[i].returned # landings[j].returned
    /\ test # None => test.landing_page = landings[Len(landings)].returned
    /\ \A a, b \in CounterSamples :
          /\ a < 10000 => LandingPage(a) = FourPlaces(a)
          /\ a # b => LandingPage(a) # LandingPage(b)

C15_Witness ==
    /\ Len(landings) = 4 /\ test.landing_page = FourPlaces(3)
    /\ LandingPage(generated) = FourPlaces(4)

\* the first n elements of a sequence
Take(s, n) == SubSeq(s, 1, n)

\* C16: in replay mode the rotation period is 0, the pool is what the scan of
\* __init__ found less the paths consumed, one per generate() call that did
\* not fail in pop(), the hook raising or not, and no consumed path is in the
\* pool again.
C16_ReplayPoolAccounting ==
    is_replay =>
        LET consumed == calls - exhausted
        IN  /\ rotate_period = 0
            /\ consumed <= N
            /\ Size(templates) = N - consumed
            /\ Range(templates) = scanned \ Range(Take(Ascending(scanned), consumed))
            /\ exhausted > 0 => Size(templates) = 0

C16_Witness ==
    /\ is_replay /\ N = 3 /\ calls = 4 /\ exhausted = 1 /\ generated = 1
    /\ result = "IndexError" /\ Size(templates) = 0

\* the active template is absent exactly while no generate() call has come
\* to choose a template (each such call goes on to call _generate)
C17_AbsentUntilSelection ==
    /\ GetActiveFileName(active_template) = None <=> hook_call = None
    /\ test # None => test.template # None

\* C17: get_active_file_name() is None until the first generate() call that
\* chooses a template and never afterwards; a call that clears the active
\* template chooses one again, a call failing in the rescan leaves it as it
\* was, and a returned TestCase carries the active template.
C17_ActiveNeverAbsentAgain ==
    [][GenerateStep =>
          /\ C17_AbsentUntilSelection /\ C17_AbsentUntilSelection'
          /\ GetActiveFileName(active_template) # None =>
                GetActiveFileName(active_template') # None
          /\ cleared' => (selected' /\ active_template' # None)
          /\ result' = "IOError" => active_template' = active_template
          /\ result' = "ok" =>
                (test'.template # None /\ test'.template = active_template')]_vars

C17_Witness ==
    /\ ~is_replay /\ rotate_period = 1 /\ calls = 3 /\ generated = 1
    /\ result = "IOError" /\ hook_raised
    /\ GetActiveFileName(active_template) = [str |-> PathOf("f2")]
    /\ test.template.file_name = PathOf("f1")

====
